---- MODULE Spec2Model ----
(***************************************************************************)
(* Model of scripts/validate-projects.mjs: the project-data validator.     *)
(*                                                                         *)
(* Strings are sequences of one-character strings, so that endsWith and    *)
(* includes are computed rather than assumed.  A JSON value is a record    *)
(* [t, s]: t is its type tag and s its characters when it is a string.     *)
(* The console is observed step by step: `printed` holds the lines the     *)
(* last step wrote, `calls` the image-directory filesystem calls of the    *)
(* last loop iteration and `checked` the checks that iteration executed.   *)
(***************************************************************************)
EXTENDS Integers, Sequences, FiniteSets, TLC

VARIABLES pc, listing, files, idx, data, hasErrors, printed, calls, checked, exitCode, thrown

vars == <<pc, listing, files, idx, data, hasErrors, printed, calls, checked, exitCode, thrown>>

\* Largest number of entries of the project-data directory that is explored.
MaxEntries == 3

-----------------------------------------------------------------------------
\* Strings

JsonExt == <<".", "j", "s", "o", "n">>

SchemaFileName ==
    <<"p", "r", "o", "j", "e", "c", "t", ".", "s", "c", "h", "e", "m", "a", ".", "j", "s", "o", "n">>

RootMarker == <<"(", "r", "o", "o", "t", ")">>

EndsWith(s, suf) ==
    /\ Len(s) >= Len(suf)
    /\ SubSeq(s, Len(s) - Len(suf) + 1, Len(s)) = suf

Includes(s, c) == \E k \in DOMAIN s : s[k] = c

-----------------------------------------------------------------------------
\* JSON values of a field

Absent == [t |-> "absent", s |-> <<>>]
Null   == [t |-> "null", s |-> <<>>]
Num    == [t |-> "number", s |-> <<>>]     \* a non-zero number such as 42
Str(s) == [t |-> "string", s |-> s]

\* JavaScript truthiness of a property read: undefined, null and "" are falsy.
Truthy(v) == \/ v.t = "number"
             \/ v.t = "string" /\ v.s # <<>>

\* `.includes` is a method of strings; on a number it is undefined and the
\* call throws a TypeError.
HasIncludes(v) == v.t = "string"

-----------------------------------------------------------------------------
\* The public images directory

AtLimitPng  == <<"a">>
OverPng     == <<"b">>
MissingPng  == <<"m">>
SlashPath   == <<"d", "/", "a">>
BackPath    == <<"d", "\\", "a">>

\* The images directory holds a file of exactly 10 MiB and one a byte larger.
existsSync(name) == name \in {AtLimitPng, OverPng}

statSize(name) == IF name = AtLimitPng THEN 10485760 ELSE 10485761

\* Variant: the ceiling taken as 10 decimal megabytes.
maxBytesDecimal == 10 * 1000 * 1000

maxBytes == 10 * 1024 * 1024

\* Math.round(size / 1024 / 1024 * 10), the size in tenths of a megabyte.
RoundTenths(size) == (size * 10 * 2 + 1024 * 1024) \div (2 * 1024 * 1024)

-----------------------------------------------------------------------------
\* The project-data directory and the documents its files hold

DirOrder ==
    << <<"a">> \o JsonExt, <<"b">> \o JsonExt, <<"c", ".", "m", "d">>, SchemaFileName >>

Pick(S) ==
    LET F[k \in 0..Len(DirOrder)] ==
            IF k = 0 THEN <<>>
            ELSE IF k \in S THEN Append(F[k - 1], DirOrder[k]) ELSE F[k - 1]
    IN  F[Len(DirOrder)]

Listings == { Pick(S) : S \in { T \in SUBSET (1..Len(DirOrder)) : Cardinality(T) <= MaxEntries } }

\* Variant: the schema file is not excluded from the listing.
IsJsonFile(f) == EndsWith(f, JsonExt)

IsProjectFile(f) == EndsWith(f, JsonExt) /\ f # SchemaFileName

findProjectFiles(entries) == SelectSeq(entries, IsProjectFile)

SuggestedOrder == <<"projectUrl", "githubUrl", "tags">>
Suggested == { SuggestedOrder[k] : k \in DOMAIN SuggestedOrder }

\* validate.errors: no error, one at the document root, one at a field.
SchemaErrorSets ==
    { <<>>, << [instancePath |-> <<>>] >>, << [instancePath |-> <<"/", "t">>] >> }

ImageUrlValues == { Absent, Null, Str(<<>>), Str(<<"u">>), Num }

ImageValues ==
    { Absent, Str(<<>>), Num,
      Str(AtLimitPng), Str(OverPng), Str(MissingPng), Str(SlashPath), Str(BackPath) }

ObjectDocs ==
    [ kind : {"object"}, errors : SchemaErrorSets, imageUrl : ImageUrlValues,
      projectImage : ImageValues, studentPhoto : ImageValues, keys : SUBSET Suggested ]

\* JSON.parse may also return null or a primitive; neither has own fields.
OtherDocs ==
    [ kind : {"null", "primitive"}, errors : SchemaErrorSets, imageUrl : {Absent},
      projectImage : {Absent}, studentPhoto : {Absent}, keys : {{}} ]

\* No document: readJSON threw (unreadable file or malformed JSON).
NoData ==
    [ kind |-> "none", errors |-> <<>>, imageUrl |-> Absent,
      projectImage |-> Absent, studentPhoto |-> Absent, keys |-> {} ]

ReadOutcomes == ObjectDocs \cup OtherDocs \cup {NoData}

-----------------------------------------------------------------------------
\* Console lines

Line(k, f, s, n) == [k |-> k, f |-> f, s |-> s, n |-> n]

InfoLine          == Line("info", "", <<>>, 0)
NoFilesLine       == Line("noFiles", "", <<>>, 0)
UncaughtLine      == Line("uncaught", "", <<>>, 0)
HeaderLine(file)  == Line("schemaHeader", "", file, 0)
SchemaLine(err)   ==
    Line("schemaError", "", IF err.instancePath = <<>> THEN RootMarker ELSE err.instancePath, 0)
RenamedLine       == Line("renamed", "", <<>>, 0)
PathOnlyLine(f, s) == Line("pathOnly", f, s, 0)
NotFoundLine(s)   == Line("notFound", "", s, 0)
LargeLine(size)   == Line("large", "", <<>>, RoundTenths(size))
SuggestionLine(key) == Line("suggestion", key, <<>>, 0)
FailedLine        == Line("failed", "", <<>>, 0)
AllValidLine(n)   == Line("allValid", "", <<>>, n)

-----------------------------------------------------------------------------
\* The checks of one loop iteration (main, lines 48-115).  The iteration is
\* folded over a record: the failure flag, the lines printed, the image
\* filesystem calls made, the checks executed, and whether an exception left
\* the loop.

Throw(st) == [st EXCEPT !.thrown = TRUE]

Say(st, line) == [st EXCEPT !.out = Append(@, line)]

Fail(st, line) == [st EXCEPT !.flag = TRUE, !.out = Append(@, line)]

Done(st, check) == [st EXCEPT !.checked = @ \cup {check}]

Call(st, op, name) == [st EXCEPT !.calls = Append(@, [op |-> op, name |-> name])]

\* Variant: a read failure is reported for the file and the loop carries on.
ReadStepCaught(st, doc) == IF doc.kind = "none" THEN Fail(st, UncaughtLine) ELSE st

\* const data = readJSON(full)
ReadStep(st, doc) == IF doc.kind = "none" THEN Throw(st) ELSE st

RECURSIVE SayErrors(_, _, _)
SayErrors(st, errs, k) ==
    IF k > Len(errs) THEN st ELSE SayErrors(Say(st, SchemaLine(errs[k])), errs, k + 1)

\* const valid = validate(data); if (!valid) { ... }
SchemaStep(st, file, doc) ==
    Done(IF doc.errors = <<>> THEN st
         ELSE SayErrors(Fail(st, HeaderLine(file)), doc.errors, 1),
         "schema")

ImageUrlFlagged(v) == Truthy(v)

\* Variant: the imageUrl check is skipped when schema validation failed.
ImageUrlStepElse(st, doc) ==
    IF doc.kind = "null" THEN Throw(st)
    ELSE Done(IF doc.errors = <<>> /\ ImageUrlFlagged(doc.imageUrl)
              THEN Fail(st, RenamedLine) ELSE st, "imageUrl")

\* if (data.imageUrl) { ... }: reading a property of null throws.
ImageUrlStep(st, doc) ==
    IF doc.kind = "null" THEN Throw(st)
    ELSE Done(IF ImageUrlFlagged(doc.imageUrl) THEN Fail(st, RenamedLine) ELSE st, "imageUrl")

\* Variant: only the forward slash is looked for.
HasPathSlashOnly(s) == Includes(s, "/")

HasPath(s) == Includes(s, "/") \/ Includes(s, "\\")

\* Variant: the comparison is not strict.
TooLargeInclusive(size) == size >= maxBytes

TooLarge(size) == size > maxBytes

SizeCheck(st, name) ==
    LET s1 == Call(st, "statSync", name)
    IN  IF TooLarge(statSize(name)) THEN Fail(s1, LargeLine(statSize(name))) ELSE s1

ExistsCheck(st, name) ==
    LET s1 == Call(st, "existsSync", name)
    IN  IF ~existsSync(name) THEN Fail(s1, NotFoundLine(name)) ELSE SizeCheck(s1, name)

\* if (data.projectImage) { ... } and if (data.studentPhoto) { ... }
ImageStep(st, field, v) ==
    IF ~Truthy(v) THEN Done(st, field)
    ELSE IF ~HasIncludes(v) THEN Throw(st)
    ELSE Done(IF HasPath(v.s) THEN Fail(st, PathOnlyLine(field, v.s))
              ELSE ExistsCheck(st, v.s),
              field)

RECURSIVE Suggest(_, _, _)
Suggest(st, keys, k) ==
    IF k > Len(SuggestedOrder) THEN st
    ELSE Suggest(IF SuggestedOrder[k] \in keys THEN st
                 ELSE Say(st, SuggestionLine(SuggestedOrder[k])),
                 keys, k + 1)

\* Variant: a missing suggested key counts as an error.
SuggestionStepStrict(st, doc) ==
    IF doc.kind = "primitive" THEN Throw(st)
    ELSE LET s1 == Done(Suggest(st, doc.keys, 1), "suggested")
         IN  IF Suggested \subseteq doc.keys THEN s1 ELSE [s1 EXCEPT !.flag = TRUE]

\* for (const key of suggested) if (!(key in data)) ...: `in` applied to a
\* primitive throws.
SuggestionStep(st, doc) ==
    IF doc.kind = "primitive" THEN Throw(st)
    ELSE Done(Suggest(st, doc.keys, 1), "suggested")

AllChecks == {"schema", "imageUrl", "projectImage", "studentPhoto", "suggested"}

ValidateFile(file, doc, flag) ==
    LET s0 == [flag |-> flag, out |-> <<>>, calls |-> <<>>, checked |-> {}, thrown |-> FALSE]
        s1 == ReadStep(s0, doc)
        s2 == IF s1.thrown THEN s1 ELSE SchemaStep(s1, file, doc)
        s3 == IF s2.thrown THEN s2 ELSE ImageUrlStep(s2, doc)
        s4 == IF s3.thrown THEN s3 ELSE ImageStep(s3, "projectImage", doc.projectImage)
        s5 == IF s4.thrown THEN s4 ELSE ImageStep(s4, "studentPhoto", doc.studentPhoto)
    IN  IF s5.thrown THEN s5 ELSE SuggestionStep(s5, doc)

NoFiles(fs) == Len(fs) = 0

\* Variant: the run ends normally whatever the flag.
ExitStatusAlwaysZero(flag) == 0

ExitStatus(flag) == IF flag THEN 1 ELSE 0

-----------------------------------------------------------------------------
\* The run

Init ==
    /\ pc = "start"
    /\ listing = <<>>
    /\ files = <<>>
    /\ idx = 0
    /\ data = NoData
    /\ hasErrors = FALSE
    /\ printed = <<>>
    /\ calls = <<>>
    /\ checked = {}
    /\ exitCode = 0
    /\ thrown = FALSE

\* main().catch((e) => { console.error(e); process.exit(1); })
Catch(out) ==
    /\ printed' = Append(out, UncaughtLine)
    /\ thrown' = TRUE
    /\ exitCode' = 1
    /\ pc' = "exited"

\* info(...); readJSON(schemaPath); ajv.compile(schema)
LoadSchema ==
    /\ pc = "start"
    /\ \E loads \in BOOLEAN :
          IF loads
          THEN /\ printed' = <<InfoLine>>
               /\ pc' = "enumerate"
               /\ UNCHANGED <<thrown, exitCode>>
          ELSE Catch(<<InfoLine>>)
    /\ UNCHANGED <<listing, files, idx, data, hasErrors, calls, checked>>

\* const files = findProjectFiles(); if (files.length === 0) { ... }
Enumerate ==
    /\ pc = "enumerate"
    /\ \E readable \in BOOLEAN, entries \in Listings :
          IF ~readable
          THEN Catch(<<>>) /\ UNCHANGED <<listing, files, hasErrors>>
          ELSE /\ listing' = entries
               /\ files' = findProjectFiles(entries)
               /\ IF NoFiles(files')
                  THEN /\ printed' = <<NoFilesLine>>
                       /\ exitCode' = 1
                       /\ pc' = "exited"
                       /\ UNCHANGED hasErrors
                  ELSE /\ printed' = <<>>
                       /\ hasErrors' = FALSE
                       /\ pc' = "loop"
                       /\ UNCHANGED exitCode
               /\ UNCHANGED thrown
    /\ UNCHANGED <<idx, data, calls, checked>>

\* for (const file of files): the iterator yields the next file and the loop
\* body gets a fresh scope (data is not bound yet, nothing printed by it).
NextFile ==
    /\ pc = "loop"
    /\ idx < Len(files)
    /\ idx' = idx + 1
    /\ pc' = "body"
    /\ data' = NoData
    /\ printed' = <<>>
    /\ calls' = <<>>
    /\ checked' = {}
    /\ UNCHANGED <<listing, files, hasErrors, exitCode, thrown>>

\* The loop body for files[idx]: read, validate, extra checks, suggestions.
Iterate ==
    /\ pc = "body"
    /\ \E doc \in ReadOutcomes :
          LET r == ValidateFile(files[idx], doc, hasErrors)
          IN  /\ data' = doc
              /\ hasErrors' = r.flag
              /\ calls' = r.calls
              /\ checked' = r.checked
              /\ IF r.thrown
                 THEN Catch(r.out)
                 ELSE /\ printed' = r.out
                      /\ pc' = "loop"
                      /\ UNCHANGED <<exitCode, thrown>>
    /\ UNCHANGED <<listing, files, idx>>

\* if (hasErrors) { ...; process.exit(1) } else { ... }, then the process ends.
Finish ==
    /\ pc = "loop"
    /\ idx = Len(files)
    /\ printed' = << IF hasErrors THEN FailedLine ELSE AllValidLine(Len(files)) >>
    /\ exitCode' = ExitStatus(hasErrors)
    /\ pc' = "exited"
    /\ UNCHANGED <<listing, files, idx, data, hasErrors, calls, checked, thrown>>

Next == LoadSchema \/ Enumerate \/ NextFile \/ Iterate \/ Finish

Spec == Init /\ [][Next]_vars

TypeOK ==
    /\ pc \in {"start", "enumerate", "loop", "body", "exited"}
    /\ listing \in Listings
    /\ idx \in 0..Len(files)
    /\ data \in ReadOutcomes
    /\ hasErrors \in BOOLEAN
    /\ exitCode \in {0, 1}
    /\ thrown \in BOOLEAN
    /\ checked \subseteq AllChecks

-----------------------------------------------------------------------------
\* Vocabulary of the properties

\* The state right after the loop body ran for files[idx]: either it fell
\* through to the loop head or an exception took it to the top-level catch.
BodyRan == idx >= 1 /\ (pc = "loop" \/ (pc = "exited" /\ thrown))

Printed(line) == \E k \in DOMAIN printed : printed[k] = line

CountKind(kind) == Cardinality({ k \in DOMAIN printed : printed[k].k = kind })

ErrorKinds == {"schemaHeader", "schemaError", "renamed", "pathOnly", "notFound", "large", "uncaught"}

RecoverableKinds == {"schemaHeader", "renamed", "pathOnly", "notFound", "large"}

ImageFields == {"projectImage", "studentPhoto"}

Field(d, f) == IF f = "projectImage" THEN d.projectImage ELSE d.studentPhoto

ContainsSeparator(s) == \E k \in DOMAIN s : s[k] \in {"/", "\\"}

\* A present image value that is a bare filename of an existing file.
BareExisting(v) == v.t = "string" /\ v.s # <<>> /\ ~ContainsSeparator(v.s) /\ existsSync(v.s)

\* A document that is schema-valid, has no imageUrl, and whose image fields,
\* if present, are bare filenames of existing files of at most 10 MiB.
CleanDoc(d) ==
    /\ d.kind = "object"
    /\ d.errors = <<>>
    /\ d.imageUrl = Absent
    /\ \A f \in ImageFields :
          Field(d, f) = Absent \/ (BareExisting(Field(d, f)) /\ statSize(Field(d, f).s) <= 10485760)

-----------------------------------------------------------------------------
\* C1: when the process has ended, its exit status is 0 exactly when the
\* enumerator returned at least one file, no check set the failure flag and
\* no error reached the top-level catch; otherwise it is 1.
C1_ExitCodeContract ==
    pc = "exited" =>
        /\ exitCode \in {0, 1}
        /\ exitCode = 0 <=> (Len(files) > 0 /\ ~hasErrors /\ ~thrown)

C1_Witness ==
    /\ pc = "exited" /\ exitCode = 0 /\ Len(files) = 2 /\ idx = 2
    /\ printed = <<AllValidLine(2)>>

\* C2: a recoverable error (schema violation, imageUrl, malformed, missing or
\* oversized image reference) reported for a file never stops processing: the
\* loop body still executes every check of that file and returns to the loop
\* head, so that later files are read.
C2_ContinueOnError ==
    (BodyRan /\ \E k \in DOMAIN printed : printed[k].k \in RecoverableKinds)
        => (checked = AllChecks /\ ~thrown /\ pc = "loop")

\* C3: a loop body that processes a clean document leaves the failure flag as
\* it was, prints no error line and returns to the loop head, whatever
\* suggested fields the document lacks.
C3_NoFalsePositive ==
    [][(pc = "body" /\ CleanDoc(data'))
         => /\ hasErrors' = hasErrors
            /\ \A k \in DOMAIN printed' : printed'[k].k \notin ErrorKinds
            /\ pc' = "loop" /\ ~thrown']_vars

C3_Witness ==
    /\ BodyRan /\ CleanDoc(data) /\ ~hasErrors
    /\ data.projectImage = Str(AtLimitPng) /\ data.studentPhoto = Str(AtLimitPng)
    /\ data.keys = {}
    /\ CountKind("suggestion") = 3

\* C4: a document with a non-empty imageUrl sets the failure flag and prints
\* the rename instruction whether or not its schema validation passed; the
\* flag is never cleared afterwards, and a run that reaches its end with the
\* flag set exits with status 1.
C4_ImageUrlFlagged ==
    /\ [](BodyRan /\ (data.imageUrl.t = "number"
                      \/ (data.imageUrl.t = "string" /\ Len(data.imageUrl.s) > 0))
            => hasErrors /\ Printed(RenamedLine))
    /\ [][hasErrors => hasErrors']_vars
    /\ [](pc = "exited" /\ hasErrors => exitCode = 1)

C4_Witness ==
    /\ pc = "exited" /\ ~thrown /\ idx = 1 /\ exitCode = 1
    /\ data.errors = <<>> /\ data.imageUrl = Str(<<"u">>)
    /\ data.projectImage = Absent /\ data.studentPhoto = Absent

C7_ZeroFilesFatal ==
    (pc \notin {"start", "enumerate"} /\ ~thrown
       /\ ~\E k \in DOMAIN listing :
             EndsWith(listing[k], JsonExt) /\ listing[k] # SchemaFileName)
        => /\ pc = "exited" /\ exitCode = 1
           /\ printed = <<NoFilesLine>>
           /\ idx = 0 /\ data = NoData /\ checked = {} /\ calls = <<>>

C7_Witness ==
    /\ pc = "exited" /\ ~thrown /\ Len(listing) = 2 /\ files = <<>>
    /\ printed = <<NoFilesLine>> /\ exitCode = 1

\* C8: the suggestion check prints exactly one suggestion line per absent
\* suggested key and never sets the failure flag: a body run on a document
\* that is clean apart from missing suggested keys leaves the flag as it was,
\* and a run that ends with the flag clear exits 0 with a summary naming the
\* number of enumerated files.
C8_SuggestionsNeverFail ==
    /\ [](BodyRan /\ "suggested" \in checked
            => /\ CountKind("suggestion") = Cardinality(Suggested \ data.keys)
               /\ \A key \in Suggested \ data.keys : Printed(SuggestionLine(key)))
    /\ [][(pc = "body" /\ CleanDoc(data') /\ data'.keys # Suggested)
            => hasErrors' = hasErrors /\ CountKind("suggestion")' >= 1]_vars
    /\ [](pc = "exited" /\ ~thrown /\ ~hasErrors /\ Len(files) > 0
            => exitCode = 0 /\ printed = <<AllValidLine(Len(files))>>)

C8_Witness ==
    /\ pc = "exited" /\ exitCode = 0 /\ Len(files) = 2
    /\ CleanDoc(data) /\ data.keys = {"projectUrl", "githubUrl"}
    /\ printed = <<AllValidLine(2)>>

\* C9: a document that has an imageUrl key, whatever its value, sets the
\* failure flag and prints the rename instruction.
C9_PresenceIsError ==
    (BodyRan /\ data.kind = "object" /\ data.imageUrl # Absent)
        => hasErrors /\ Printed(RenamedLine)

\* C10: when reading or parsing files[idx] fails, the error goes to the
\* top-level catch: the run ends with status 1 having printed only the
\* logged error, no check ran on that file, no image was probed, neither
\* summary line is printed, and nothing happens after the exit (no later
\* file is read).
C10_AbortOnUnreadable ==
    /\ [](BodyRan /\ data.kind = "none"
            => /\ pc = "exited" /\ thrown /\ exitCode = 1
               /\ printed = <<UncaughtLine>>
               /\ checked = {} /\ calls = <<>>)
    /\ [][pc # "exited"]_vars
    /\ [][(pc = "body" /\ data'.kind = "none") => hasErrors' = hasErrors]_vars

C10_Witness ==
    /\ pc = "exited" /\ thrown /\ data.kind = "none"
    /\ idx = 1 /\ Len(files) = 2
    /\ printed = <<UncaughtLine>>

====
